---- MODULE Spec2Model ----
(***************************************************************************)
(* Workday Widget (src/workday_widget.py): the persisted work log and      *)
(* configuration, the per-category task registry, the session clock and    *)
(* the window layout, as one state machine.                                *)
(*                                                                         *)
(* Texts (titles, notes, the note buffer) are sequences of characters and  *)
(* the empty string is << >>; a category name is a string whose characters *)
(* Chars gives; timestamps are clock ticks and the ISO string of tick t is *)
(* <<t>>.                                                                  *)
(***************************************************************************)
EXTENDS Integers, Sequences, FiniteSets, TLC

VARIABLES
    tasksFile,          \* TASKS_FILE on disk
    configFile,         \* CONFIG_FILE on disk
    sessionLogs,        \* the exported logs in APP_DATA_DIR: file name -> file
    now,                \* the system clock, in ticks of its resolution
    phase,              \* "off" | "running" | "settings" (SettingsDialog open) | "closed"
    raised,             \* an exception left the last call
    last_call,          \* the DataManager method called last
    worklog,            \* WorkdayWidget.worklog
    config,             \* WorkdayWidget.config
    tabs,               \* the WorkLogTab objects, in QTabWidget order
    tabs_dict,          \* WorkdayWidget.tabs_dict: name -> index into tabs
    curTab,             \* index of tabs.currentWidget(), 0 when there is none
    presentation_mode,  \* WorkdayWidget.presentation_mode
    baseline_height,    \* WorkdayWidget.baseline_height
    geom,               \* the window's geometry()
    normal_geom,        \* WorkdayWidget.normal_geom
    elapsed_seconds,    \* WorkdayWidget.elapsed_seconds
    timer_label,        \* text of WorkdayWidget.timer_label
    notes_toggled,      \* payload of the notes_toggled signal emitted by the last step
    requests,           \* the sizes the last step asked the window to take
    expanded_height,    \* history: window height last seen while Expanded (0: never)
    editor,             \* the document of a work_log editor taken on its own
    log_writer,         \* history: the category whose export wrote each session log
    opened_config       \* history: the Config as the settings dialog last opened found it

diskVars   == <<tasksFile, configFile, sessionLogs>>
dataVars   == <<worklog, config>>
tabVars    == <<tabs, tabs_dict, curTab>>
layoutVars == <<presentation_mode, baseline_height, geom, normal_geom>>
timerVars  == <<elapsed_seconds, timer_label>>
outVars    == <<notes_toggled, requests>>
vars == <<tasksFile, configFile, sessionLogs, now, phase, raised, last_call, worklog, config,
          tabs, tabs_dict, curTab, presentation_mode, baseline_height, geom,
          normal_geom, elapsed_seconds, timer_label, notes_toggled, requests,
          expanded_height, editor, log_writer, opened_config>>

(***************************************************************************)
(* Bounds of the model.                                                    *)
(***************************************************************************)
MaxClock == 2
MaxTasks == 2
MaxLayoutTasks == 1
MaxElapsed == 1
MaxTeams == 2
MaxSessionTasks == 1
MaxListTasks == 3
MaxNoteLen == 5
MaxHours == 100

(***************************************************************************)
(* Program constants.                                                      *)
(***************************************************************************)
WINDOW_WIDTH == 520
WINDOW_HEIGHT == 550
WINDOW_MIN_WIDTH == 200
WINDOW_MIN_HEIGHT == 500
PRESENTATION_MODE_WIDTH == 300
PRESENTATION_MODE_HEIGHT == 80
NOTES_ALLOWANCE == 85
DEFAULT_WINDOW_X == 100
DEFAULT_WINDOW_Y == 100

Max(a, b) == IF a >= b THEN a ELSE b
Last(s) == s[Len(s)]
EmptyMap == << >>

(***************************************************************************)
(* Task and WorkLog (lines 70-117).                                        *)
(***************************************************************************)
TaskFields == {"id", "title", "created_at", "completed", "notes"}

\* Task(id, title, created_at, completed=False, notes="")
Task(id, title, created_at) ==
    [id |-> id, title |-> title, created_at |-> created_at,
     completed |-> FALSE, notes |-> << >>]

\* a to_dict that leaves the notes out of the record: the variant C2 has to
\* tell from asdict
Task_to_dict_without_notes(t) == [k \in TaskFields \ {"notes"} |-> t[k]]

\* Task.to_dict: asdict(self), field by field
Task_to_dict(t) == [k \in TaskFields |-> t[k]]

\* Task(**data) raises TypeError on a missing required or an unknown keyword
Task_from_dict_raises(d) ==
    ~({"id", "title", "created_at"} \subseteq DOMAIN d) \/ ~(DOMAIN d \subseteq TaskFields)

Task_from_dict(d) ==
    [id |-> d["id"], title |-> d["title"], created_at |-> d["created_at"],
     completed |-> IF "completed" \in DOMAIN d THEN d["completed"] ELSE FALSE,
     notes |-> IF "notes" \in DOMAIN d THEN d["notes"] ELSE << >>]

\* data.get(key, default)
Get(data, key, default) == IF key \in DOMAIN data THEN data[key] ELSE default

WorkLog(teams, session_notes, session_start) ==
    [teams |-> teams, session_notes |-> session_notes, session_start |-> session_start]

WorkLog_to_dict(w) ==
    [k \in {"teams", "session_notes", "session_start"} |->
        CASE k = "teams" ->
                [name \in DOMAIN w.teams |->
                    [j \in 1..Len(w.teams[name]) |-> Task_to_dict(w.teams[name][j])]]
          [] k = "session_notes" -> w.session_notes
          [] OTHER -> w.session_start]

\* two default categories instead of three: the variant C17 has to tell
DefaultTeams_without_sap == [name \in {"Team A", "Team B"} |-> << >>]

\* line 115
DefaultTeams == [name \in {"Team A", "Team B", "SAP Project"} |-> << >>]

\* the task lists WorkLog.from_dict converts: every list under "teams", then
\* the list of each legacy key that is present
ListsRead(data) ==
    {Get(data, "teams", EmptyMap)[name] : name \in DOMAIN Get(data, "teams", EmptyMap)}
        \cup {data[key] : key \in {"team_a", "team_b", "sap_project"} \cap DOMAIN data}

WorkLog_from_dict_raises(data) ==
    \E l \in ListsRead(data) : \E j \in 1..Len(l) : Task_from_dict_raises(l[j])

TasksOf(l) == [j \in 1..Len(l) |-> Task_from_dict(l[j])]

\* teams[name] = value
Put(f, key, value) == [x \in DOMAIN f \cup {key} |-> IF x = key THEN value ELSE f[x]]

\* a from_dict in which a legacy key does not replace a category that "teams"
\* already gave: the variant C5 has to tell from lines 106-111
WorkLog_from_dict_teams_win(data) ==
    LET fromTeams == Get(data, "teams", EmptyMap)
        t0 == [name \in DOMAIN fromTeams |-> TasksOf(fromTeams[name])]
        t1 == IF "team_a" \in DOMAIN data /\ "Team A" \notin DOMAIN t0
              THEN Put(t0, "Team A", TasksOf(data["team_a"])) ELSE t0
        t2 == IF "team_b" \in DOMAIN data /\ "Team B" \notin DOMAIN t1
              THEN Put(t1, "Team B", TasksOf(data["team_b"])) ELSE t1
        teams == IF "sap_project" \in DOMAIN data /\ "SAP Project" \notin DOMAIN t2
                 THEN Put(t2, "SAP Project", TasksOf(data["sap_project"])) ELSE t2
    IN WorkLog(IF DOMAIN teams # {} THEN teams ELSE DefaultTeams,
               Get(data, "session_notes", EmptyMap),
               Get(data, "session_start", << >>))

WorkLog_from_dict(data) ==
    LET fromTeams == Get(data, "teams", EmptyMap)
        t0 == [name \in DOMAIN fromTeams |-> TasksOf(fromTeams[name])]
        t1 == IF "team_a" \in DOMAIN data
              THEN Put(t0, "Team A", TasksOf(data["team_a"])) ELSE t0
        t2 == IF "team_b" \in DOMAIN data
              THEN Put(t1, "Team B", TasksOf(data["team_b"])) ELSE t1
        teams == IF "sap_project" \in DOMAIN data
                 THEN Put(t2, "SAP Project", TasksOf(data["sap_project"])) ELSE t2
    IN WorkLog(IF DOMAIN teams # {} THEN teams ELSE DefaultTeams,
               Get(data, "session_notes", EmptyMap),
               Get(data, "session_start", << >>))

(***************************************************************************)
(* Files and DataManager (lines 150-199).  A file is missing, cannot be    *)
(* opened, holds text that is not JSON, holds JSON whose root is not an    *)
(* object, or holds an object.                                             *)
(***************************************************************************)
File(kind, doc) == [kind |-> kind, doc |-> doc]
MissingFile == File("missing", EmptyMap)

\* what the body of the try block ends with
ReadException(file) ==
    CASE file.kind = "unreadable" -> "OSError"
      [] file.kind = "badjson" -> "JSONDecodeError"
      [] file.kind = "nonobject" -> "AttributeError"
      [] OTHER -> "none"

\* a handler that catches I/O errors only: the variant C3 has to tell from
\* "except Exception"
ExceptOSError(exc) == exc = "OSError"

\* a handler that catches errors of the JSON text only: the variant C16 has
\* to tell from "except Exception"
ExceptJSONDecodeError(exc) == exc = "JSONDecodeError"

\* except Exception as e
ExceptException(exc) ==
    exc \in {"OSError", "JSONDecodeError", "AttributeError", "TypeError", "KeyError"}

Returned(value) == [raised |-> FALSE, value |-> value]
Raised(value) == [raised |-> TRUE, value |-> value]

load_worklog_exception(file) ==
    IF ReadException(file) # "none" THEN ReadException(file)
    ELSE IF WorkLog_from_dict_raises(file.doc) THEN "TypeError"
    ELSE "none"

load_worklog(file, t) ==
    LET fresh == WorkLog(EmptyMap, EmptyMap, <<t>>)
        exc == load_worklog_exception(file)
    IN IF file.kind # "missing" /\ exc = "none" THEN Returned(WorkLog_from_dict(file.doc))
       ELSE IF file.kind # "missing" /\ ~ExceptException(exc) THEN Raised(fresh)
       ELSE Returned(fresh)

\* open(path, "w") then json.dump: the open fails and the file stays, or the
\* write fails after the file was truncated, or the document is written
WriteOutcomes == {"written", "open_failed", "write_failed"}
WriteFile(file, doc, outcome) ==
    CASE outcome = "written" -> File("object", doc)
      [] outcome = "write_failed" -> File("badjson", EmptyMap)
      [] OTHER -> file

save_worklog(file, w, outcome) == WriteFile(file, WorkLog_to_dict(w), outcome)

(***************************************************************************)
(* AppConfig (lines 120-145) and its file (lines 174-199).                 *)
(***************************************************************************)
Team(name, color) == [name |-> name, color |-> color]
DefaultConfigTeams ==
    <<Team("Team A", "#74c7ec"), Team("Team B", "#cba6f7"), Team("SAP Project", "#fab387")>>

ConfigFields == {"teams", "window_width", "window_height", "window_x", "window_y",
                 "notes_collapsed", "presentation_mode"}

AppConfig(teams) ==
    [teams |-> teams, window_width |-> WINDOW_WIDTH, window_height |-> WINDOW_HEIGHT,
     window_x |-> DEFAULT_WINDOW_X, window_y |-> DEFAULT_WINDOW_Y,
     notes_collapsed |-> FALSE, presentation_mode |-> FALSE]

AppConfig_from_dict(data) ==
    [teams |-> Get(data, "teams", DefaultConfigTeams),
     window_width |-> Get(data, "window_width", WINDOW_WIDTH),
     window_height |-> Get(data, "window_height", WINDOW_HEIGHT),
     window_x |-> Get(data, "window_x", DEFAULT_WINDOW_X),
     window_y |-> Get(data, "window_y", DEFAULT_WINDOW_Y),
     notes_collapsed |-> Get(data, "notes_collapsed", FALSE),
     presentation_mode |-> Get(data, "presentation_mode", FALSE)]

\* a to_dict that leaves window_height out: the variant C18 has to tell from
\* asdict
AppConfig_to_dict_without_height(c) == [k \in ConfigFields \ {"window_height"} |-> c[k]]

\* AppConfig.to_dict: asdict(self)
AppConfig_to_dict(c) == [k \in ConfigFields |-> c[k]]

load_config(file) ==
    LET exc == ReadException(file)
    IN IF file.kind # "missing" /\ exc = "none" THEN Returned(AppConfig_from_dict(file.doc))
       ELSE IF file.kind # "missing" /\ ~ExceptException(exc)
            THEN Raised(AppConfig(DefaultConfigTeams))
       ELSE Returned(AppConfig(DefaultConfigTeams))

save_config(file, c, outcome) == WriteFile(file, AppConfig_to_dict(c), outcome)

\* save_session_log, lines 201-210: the file f"{filename}_{timestamp}.txt" is
\* named by the pair; a write that fails leaves the part written so far
save_session_log(logs, filename, content, t, outcome) ==
    LET log_path == <<filename, t>>
    IN CASE outcome = "written" ->
                [x \in DOMAIN logs \cup {log_path} |->
                    IF x = log_path THEN File("text", content) ELSE logs[x]]
         [] outcome = "write_failed" ->
                [x \in DOMAIN logs \cup {log_path} |->
                    IF x = log_path THEN File("partial", << >>) ELSE logs[x]]
         [] OTHER -> logs

(***************************************************************************)
(* Category names and the tab id derived from them (line 805).             *)
(***************************************************************************)
Chars(name) ==
    CASE name = "Team A" -> <<"T", "e", "a", "m", " ", "A">>
      [] name = "Team B" -> <<"T", "e", "a", "m", " ", "B">>
      [] name = "team_a" -> <<"t", "e", "a", "m", "_", "a">>
      [] name = "Team_A" -> <<"T", "e", "a", "m", "_", "A">>
      [] name = "SAP Project" ->
            <<"S", "A", "P", " ", "P", "r", "o", "j", "e", "c", "t">>

\* str.lower(), one character
LowerChar(c) ==
    CASE c = "T" -> "t" [] c = "A" -> "a" [] c = "B" -> "b"
      [] c = "S" -> "s" [] c = "P" -> "p" [] OTHER -> c

\* team_name.lower().replace(" ", "_")
tab_id_of(name) ==
    [k \in 1..Len(Chars(name)) |->
        IF LowerChar(Chars(name)[k]) = " " THEN "_" ELSE LowerChar(Chars(name)[k])]

\* current_tab.tab_name.replace(" ", "_") (line 945)
log_name(name) ==
    [k \in 1..Len(Chars(name)) |-> IF Chars(name)[k] = " " THEN "_" ELSE Chars(name)[k]]

\* f"{self.tab_id}_{datetime.now().timestamp()}": the timestamp holds no "_",
\* so the string is given by the pair
task_id(tab_id, t) == <<tab_id, t>>

(***************************************************************************)
(* The state before the process starts.                                    *)
(***************************************************************************)
NoGeom == [x |-> 0, y |-> 0, w |-> 0, h |-> 0]

\* the clock reads 1 when the process starts; what the files hold was
\* written at tick 0, and no log was exported yet
InitMemory ==
    /\ sessionLogs = EmptyMap
    /\ now = 1
    /\ phase = "off"
    /\ raised = FALSE
    /\ last_call = "none"
    /\ worklog = WorkLog(EmptyMap, EmptyMap, << >>)
    /\ config = AppConfig(<< >>)
    /\ tabs = << >>
    /\ tabs_dict = EmptyMap
    /\ curTab = 0
    /\ presentation_mode = FALSE
    /\ baseline_height = WINDOW_HEIGHT
    /\ geom = NoGeom
    /\ normal_geom = NoGeom
    /\ elapsed_seconds = 0
    /\ timer_label = <<"0", "0", ":", "0", "0", ":", "0", "0">>
    /\ notes_toggled = "none"
    /\ requests = << >>
    /\ expanded_height = 0
    /\ editor = << >>
    /\ log_writer = EmptyMap
    /\ opened_config = AppConfig(<< >>)

\* the system clock moves on
ClockTick ==
    /\ now' = now + 1
    /\ UNCHANGED <<diskVars, phase, raised, last_call, dataVars, tabVars, layoutVars,
                   timerVars, outVars, expanded_height, editor, log_writer, opened_config>>

(***************************************************************************)
(* DataManager called on its own: the work-log documents a file may hold,  *)
(* and load_worklog and save_worklog applied to them.                      *)
(***************************************************************************)
DocTaskFull ==
    [id |-> task_id(tab_id_of("Team A"), 0), title |-> <<"h", "i">>,
     created_at |-> <<0>>, completed |-> TRUE, notes |-> <<"n">>]
DocTaskMinimal ==
    [id |-> task_id(tab_id_of("Team B"), 0), title |-> <<"y", "o">>,
     created_at |-> <<0>>]
DocTaskNoId == [title |-> <<"h", "i">>, created_at |-> <<0>>]
DocTaskUnknownField == DocTaskFull @@ ("priority" :> "high")

DocLists ==
    {<< >>, <<DocTaskFull>>, <<DocTaskMinimal, DocTaskFull>>, <<DocTaskNoId>>,
     <<DocTaskFull, DocTaskUnknownField>>}

Opt(key, values) == {EmptyMap} \cup {key :> v : v \in values}

StoreDocs ==
    {a @@ b @@ c @@ d @@ e @@ f :
        a \in Opt("teams", UNION {[S -> DocLists] : S \in SUBSET {"Team A", "Team B"}}),
        b \in Opt("team_a", {<< >>, <<DocTaskMinimal>>, <<DocTaskNoId>>}),
        c \in Opt("team_b", {<< >>, <<DocTaskFull>>}),
        d \in Opt("sap_project", {<<DocTaskMinimal>>}),
        e \in Opt("session_notes", {"standup" :> <<"n">>}),
        f \in Opt("session_start", {<<0>>})}

StoreFiles ==
    {MissingFile, File("unreadable", EmptyMap), File("badjson", EmptyMap),
     File("nonobject", EmptyMap)} \cup {File("object", doc) : doc \in StoreDocs}

InitStore ==
    /\ tasksFile \in StoreFiles
    /\ configFile = MissingFile
    /\ InitMemory

Call_load_worklog ==
    /\ phase = "off"
    /\ worklog' = load_worklog(tasksFile, now).value
    /\ raised' = load_worklog(tasksFile, now).raised
    /\ last_call' = "load_worklog"
    /\ UNCHANGED <<diskVars, now, phase, config, tabVars, layoutVars, timerVars,
                   outVars, expanded_height, editor, log_writer, opened_config>>

\* an exception of the write is caught by "except Exception"
Call_save_worklog(outcome) ==
    /\ phase = "off"
    /\ last_call # "none"
    /\ tasksFile' = save_worklog(tasksFile, worklog, outcome)
    /\ raised' = (outcome # "written" /\ ~ExceptException("OSError"))
    /\ last_call' = "save_worklog"
    /\ UNCHANGED <<configFile, sessionLogs, now, phase, dataVars, tabVars, layoutVars,
                   timerVars, outVars, expanded_height, editor, log_writer, opened_config>>

\* DataManager.load_config called on its own
Call_load_config ==
    /\ phase = "off"
    /\ config' = load_config(configFile).value
    /\ raised' = load_config(configFile).raised
    /\ last_call' = "load_config"
    /\ UNCHANGED <<diskVars, now, phase, worklog, tabVars, layoutVars, timerVars,
                   outVars, expanded_height, editor, log_writer, opened_config>>

\* DataManager.save_config called on its own, with the config a load returned
Call_save_config(outcome) ==
    /\ phase = "off"
    /\ last_call # "none"
    /\ configFile' = save_config(configFile, config, outcome)
    /\ raised' = (outcome # "written" /\ ~ExceptException("OSError"))
    /\ last_call' = "save_config"
    /\ UNCHANGED <<tasksFile, sessionLogs, now, phase, dataVars, tabVars, layoutVars,
                   timerVars, outVars, expanded_height, editor, log_writer, opened_config>>

NextStore ==
    \/ Call_load_worklog
    \/ \E outcome \in WriteOutcomes : Call_save_worklog(outcome)
    \/ (now < MaxClock /\ ClockTick)

SpecStore == InitStore /\ [][NextStore]_vars

(***************************************************************************)
(* The window.  Qt keeps a widget's size at or above its minimum size      *)
(* (setMinimumSize, line 720); geometry() is what the window has, requests *)
(* holds what the code asked for.                                          *)
(***************************************************************************)
Screen == [right |-> 1919, top |-> 0]

Geom(x, y, w, h) == [x |-> x, y |-> y, w |-> w, h |-> h]

\* the geometry a window with minimum size 200 x 500 takes when asked for g
Clamp(g) == Geom(g.x, g.y, Max(g.w, WINDOW_MIN_WIDTH), Max(g.h, WINDOW_MIN_HEIGHT))

\* the layout mode: presentation_mode first, then the displayed tab's notes
ModeOf(pm, ts, cur) ==
    IF pm THEN "Presentation"
    ELSE IF cur = 0 THEN "NoCategory"
    ELSE IF ts[cur].notes_visible THEN "Expanded" ELSE "Collapsed"

Mode == ModeOf(presentation_mode, tabs, curTab)

\* history: the window height seen while the layout is Expanded
Observe ==
    expanded_height' =
        IF ModeOf(presentation_mode', tabs', curTab') = "Expanded"
        THEN geom'.h ELSE expanded_height

(***************************************************************************)
(* WorkLogTab (lines 237-538).                                             *)
(***************************************************************************)
\* WorkLogTab.__init__; shared: self.tasks is the list object that
\* worklog.teams[tab_name] holds
WorkLogTab(tab_name, tab_id) ==
    [tab_name |-> tab_name, tab_id |-> tab_id, tasks |-> << >>, current_task |-> 0,
     notes_visible |-> TRUE, work_log |-> << >>, shared |-> FALSE]

Whitespace == {" ", "\t", "\n"}

RECURSIVE LStrip(_)
LStrip(s) == IF s # << >> /\ Head(s) \in Whitespace THEN LStrip(Tail(s)) ELSE s

RECURSIVE RStrip(_)
RStrip(s) ==
    IF s # << >> /\ s[Len(s)] \in Whitespace THEN RStrip(SubSeq(s, 1, Len(s) - 1)) ELSE s

\* a strip of the left end only: the variant C12 has to tell from strip()
Strip_left_only(s) == LStrip(s)

\* str.strip()
Strip(s) == RStrip(LStrip(s))

\* an add_task without the test of line 472: the variant C11 has to tell
add_task_unchecked(tab, input, t) ==
    [tab EXCEPT !.tasks = Append(@, Task(task_id(tab.tab_id, t), Strip(input), <<t>>))]

\* add_task
add_task(tab, input, t) ==
    LET text == Strip(input)
    IN IF text = << >> THEN tab
       ELSE [tab EXCEPT !.tasks = Append(@, Task(task_id(tab.tab_id, t), text, <<t>>))]

\* on_task_selected, idx counted from 1
on_task_selected(tab, idx) ==
    IF 1 <= idx /\ idx <= Len(tab.tasks)
    THEN [tab EXCEPT !.current_task = idx, !.work_log = tab.tasks[idx].notes]
    ELSE tab

\* a complete_task without line 506: the variant C13 has to tell
complete_task_without_flush(tab) ==
    IF tab.current_task # 0
    THEN [tab EXCEPT !.tasks[tab.current_task].completed = TRUE]
    ELSE tab

\* complete_task
complete_task(tab) ==
    IF tab.current_task # 0
    THEN [tab EXCEPT !.tasks[tab.current_task].completed = TRUE,
                     !.tasks[tab.current_task].notes = tab.work_log]
    ELSE tab

\* list.remove(x): the first element equal to x goes
Remove(l, x) ==
    LET k == CHOOSE k \in 1..Len(l) : l[k] = x /\ \A m \in 1..(k - 1) : l[m] # x
    IN SubSeq(l, 1, k - 1) \o SubSeq(l, k + 1, Len(l))

\* a delete_task without line 513: the variant C28 has to tell
delete_task_keeps_cursor(tab) ==
    IF tab.current_task # 0 /\ \E k \in 1..Len(tab.tasks) : tab.tasks[k] = tab.tasks[tab.current_task]
    THEN [tab EXCEPT !.tasks = Remove(tab.tasks, tab.tasks[tab.current_task]),
                     !.work_log = << >>]
    ELSE tab

\* delete_task
delete_task(tab) ==
    IF tab.current_task # 0 /\ \E k \in 1..Len(tab.tasks) : tab.tasks[k] = tab.tasks[tab.current_task]
    THEN [tab EXCEPT !.tasks = Remove(tab.tasks, tab.tasks[tab.current_task]),
                     !.current_task = 0, !.work_log = << >>]
    ELSE tab

\* update_notes
update_notes(tab) ==
    IF tab.current_task # 0
    THEN [tab EXCEPT !.tasks[tab.current_task].notes = tab.work_log]
    ELSE tab

\* worklog.teams as the lists it shares with the tabs now hold
Shared(w, ts) ==
    [w EXCEPT !.teams =
        [name \in DOMAIN w.teams |->
            IF name \in DOMAIN tabs_dict /\ ts[tabs_dict[name]].shared
            THEN ts[tabs_dict[name]].tasks ELSE w.teams[name]]]

\* a handler of tab i ran and left the tab as newTab
TabStep(i, newTab) ==
    /\ tabs' = [tabs EXCEPT ![i] = newTab]
    /\ worklog' = Shared(worklog, tabs')
    /\ notes_toggled' = "none"
    /\ requests' = << >>
    /\ UNCHANGED <<diskVars, now, phase, raised, last_call, config, tabs_dict, curTab,
                   layoutVars, timerVars, editor, log_writer, opened_config>>
    /\ Observe

AddTask(i, input) ==
    /\ phase = "running"
    /\ TabStep(i, add_task(tabs[i], input, now))

SelectTask(i, idx) ==
    /\ phase = "running"
    /\ TabStep(i, on_task_selected(tabs[i], idx))

\* the user edits the text of work_log (lines 328-335)
EditNotes(i, text) ==
    /\ phase = "running"
    /\ TabStep(i, [tabs[i] EXCEPT !.work_log = text])

CompleteTask(i) ==
    /\ phase = "running"
    /\ TabStep(i, complete_task(tabs[i]))

DeleteTask(i) ==
    /\ phase = "running"
    /\ TabStep(i, delete_task(tabs[i]))

(***************************************************************************)
(* WorkdayWidget (lines 690-1076).                                         *)
(***************************************************************************)
\* setup_ui, lines 802-811: one tab per configured team
MakeTabs(teams) == [k \in 1..Len(teams) |-> WorkLogTab(teams[k].name, tab_id_of(teams[k].name))]

\* self.tabs_dict[team_name] = tab: a later tab of the same name replaces
MakeTabsDict(teams) ==
    [name \in {teams[k].name : k \in 1..Len(teams)} |->
        CHOOSE k \in 1..Len(teams) :
            teams[k].name = name /\ \A m \in (k + 1)..Len(teams) : teams[m].name # name]

\* restore_data, lines 951-960: the tabs of tabs_dict get their tasks, and
\* with notes_collapsed their notes hidden
RestoreTabs(ts, dict, w, collapsed) ==
    [k \in 1..Len(ts) |->
        IF dict[ts[k].tab_name] = k
        THEN [ts[k] EXCEPT
                !.tasks = IF ts[k].tab_name \in DOMAIN w.teams
                          THEN w.teams[ts[k].tab_name] ELSE << >>,
                !.shared = ts[k].tab_name \in DOMAIN w.teams,
                !.notes_visible = ~collapsed]
        ELSE ts[k]]

\* setup_window, lines 714-719, asks for the configured size
StartGeom(c) ==
    Geom(Screen.right - c.window_width - 10, Screen.top + 10, c.window_width, c.window_height)

\* restore_data, line 962: self.resize(self.width(), WINDOW_HEIGHT - 85)
CollapsedStartGeom(g) == Geom(g.x, g.y, g.w, WINDOW_HEIGHT - NOTES_ALLOWANCE)

\* f"{n:02d}"
DigitChar(d) == CASE d = 0 -> "0" [] d = 1 -> "1" [] d = 2 -> "2" [] d = 3 -> "3"
                  [] d = 4 -> "4" [] d = 5 -> "5" [] d = 6 -> "6" [] d = 7 -> "7"
                  [] d = 8 -> "8" [] d = 9 -> "9"

RECURSIVE Decimal(_)
Decimal(n) == IF n < 10 THEN <<DigitChar(n)>> ELSE Decimal(n \div 10) \o <<DigitChar(n % 10)>>

\* f"{n}", with no padding: the variant C26 has to tell from f"{n:02d}"
Format_d(n) == Decimal(n)

Format02d(n) == IF n < 10 THEN <<"0">> \o Decimal(n) ELSE Decimal(n)

\* update_timer, lines 921-924
FormatElapsed(e) ==
    Format02d(e \div 3600) \o <<":">> \o Format02d((e % 3600) \div 60)
        \o <<":">> \o Format02d(e % 60)

\* __init__: load, setup_window, setup_ui, setup_timer, restore_data
Startup ==
    /\ phase = "off"
    /\ LET w == load_worklog(tasksFile, now)
           c == load_config(configFile)
           dict == MakeTabsDict(c.value.teams)
           first == Clamp(StartGeom(c.value))
           collapse == c.value.notes_collapsed /\ DOMAIN dict # {}
       IN /\ raised' = (w.raised \/ c.raised)
          /\ phase' = IF w.raised \/ c.raised THEN "off" ELSE "running"
          /\ last_call' = "load_config"
          /\ worklog' = w.value
          /\ config' = c.value
          /\ tabs_dict' = dict
          /\ tabs' = RestoreTabs(MakeTabs(c.value.teams), dict, w.value,
                                 c.value.notes_collapsed)
          /\ curTab' = IF Len(c.value.teams) > 0 THEN 1 ELSE 0
          /\ presentation_mode' = FALSE
          /\ baseline_height' = c.value.window_height
          /\ geom' = IF collapse THEN Clamp(CollapsedStartGeom(first)) ELSE first
          /\ requests' = <<StartGeom(c.value)>> \o
                            [k \in 1..(IF c.value.notes_collapsed THEN Cardinality(DOMAIN dict) ELSE 0)
                                |-> CollapsedStartGeom(first)]
          /\ normal_geom' = NoGeom
          /\ elapsed_seconds' = 0
          /\ timer_label' = <<"0", "0", ":", "0", "0", ":", "0", "0">>
          /\ notes_toggled' = "none"
          /\ UNCHANGED <<diskVars, now, editor, log_writer, opened_config>>
          /\ Observe

\* the user shows another tab of the QTabWidget; the tabs are hidden in
\* presentation mode (line 1001)
SwitchTab(i) ==
    /\ phase = "running"
    /\ ~presentation_mode
    /\ i # curTab
    /\ curTab' = i
    /\ notes_toggled' = "none"
    /\ requests' = << >>
    /\ UNCHANGED <<diskVars, now, phase, raised, last_call, dataVars, tabs, tabs_dict,
                   layoutVars, timerVars, editor, log_writer, opened_config>>
    /\ Observe

\* save_all, lines 935-936: every tab of tabs_dict flushes its notes and its
\* list becomes worklog.teams[team_name]
FlushedTabs ==
    [k \in 1..Len(tabs) |->
        IF tabs_dict[tabs[k].tab_name] = k
        THEN [update_notes(tabs[k]) EXCEPT !.shared = TRUE] ELSE tabs[k]]

\* a save_all that keeps the categories of the tabs only: the variant C27
\* has to tell from save_all
FlushedWorklog_of_tabs_only ==
    [worklog EXCEPT !.teams =
        [name \in DOMAIN tabs_dict |-> FlushedTabs[tabs_dict[name]].tasks]]

FlushedWorklog ==
    [worklog EXCEPT !.teams =
        [name \in DOMAIN worklog.teams \cup DOMAIN tabs_dict |->
            IF name \in DOMAIN tabs_dict THEN FlushedTabs[tabs_dict[name]].tasks
            ELSE worklog.teams[name]]]

SaveAll(outcome) ==
    /\ phase = "running"
    /\ tabs' = FlushedTabs
    /\ worklog' = FlushedWorklog
    /\ tasksFile' = save_worklog(tasksFile, FlushedWorklog, outcome)
    /\ raised' = (outcome # "written" /\ ~ExceptException("OSError"))
    /\ last_call' = "save_worklog"
    /\ notes_toggled' = "none"
    /\ requests' = << >>
    /\ UNCHANGED <<configFile, sessionLogs, now, phase, config, tabs_dict, curTab,
                   layoutVars, timerVars, editor, log_writer, opened_config>>
    /\ Observe

\* closeEvent, lines 1061-1076
ClosedConfig ==
    [config EXCEPT
        !.window_width = geom.w,
        !.window_height = IF curTab # 0 /\ tabs[curTab].notes_visible
                          THEN geom.h ELSE baseline_height,
        !.presentation_mode = presentation_mode]

Close(outcome, configOutcome) ==
    /\ phase = "running"
    /\ phase' = "closed"
    /\ tabs' = FlushedTabs
    /\ worklog' = FlushedWorklog
    /\ tasksFile' = save_worklog(tasksFile, FlushedWorklog, outcome)
    /\ baseline_height' = ClosedConfig.window_height
    /\ config' = ClosedConfig
    /\ configFile' = save_config(configFile, ClosedConfig, configOutcome)
    /\ raised' = ((outcome # "written" \/ configOutcome # "written")
                    /\ ~ExceptException("OSError"))
    /\ last_call' = "save_config"
    /\ notes_toggled' = "none"
    /\ requests' = << >>
    /\ UNCHANGED <<sessionLogs, now, tabs_dict, curTab, presentation_mode, geom,
                   normal_geom, timerVars, expanded_height, editor, log_writer, opened_config>>

\* the process ends after closeEvent: its objects are gone, the files stay
Exit ==
    /\ phase = "closed"
    /\ phase' = "off"
    /\ raised' = FALSE
    /\ last_call' = "none"
    /\ worklog' = WorkLog(EmptyMap, EmptyMap, << >>)
    /\ config' = AppConfig(<< >>)
    /\ tabs' = << >>
    /\ tabs_dict' = EmptyMap
    /\ curTab' = 0
    /\ presentation_mode' = FALSE
    /\ baseline_height' = WINDOW_HEIGHT
    /\ geom' = NoGeom
    /\ normal_geom' = NoGeom
    /\ elapsed_seconds' = 0
    /\ timer_label' = <<"0", "0", ":", "0", "0", ":", "0", "0">>
    /\ notes_toggled' = "none"
    /\ requests' = << >>
    /\ expanded_height' = 0
    /\ UNCHANGED <<diskVars, now, editor, log_writer, opened_config>>

\* WorkLogTab.toggle_notes (lines 517-523) and, connected to its signal,
\* WorkdayWidget.on_notes_toggled (lines 964-978)
on_notes_toggled(g, is_visible) ==
    IF is_visible THEN Geom(g.x, g.y, g.w, baseline_height)
    ELSE Geom(g.x, g.y, g.w, baseline_height - NOTES_ALLOWANCE)

ToggleNotes(i) ==
    /\ phase = "running"
    /\ tabs' = [tabs EXCEPT ![i].notes_visible = ~tabs[i].notes_visible]
    /\ notes_toggled' = IF tabs'[i].notes_visible THEN "visible" ELSE "hidden"
    /\ IF presentation_mode
       THEN /\ requests' = << >>
            /\ geom' = geom
       ELSE /\ requests' = <<on_notes_toggled(geom, tabs'[i].notes_visible)>>
            /\ geom' = Clamp(on_notes_toggled(geom, tabs'[i].notes_visible))
    /\ UNCHANGED <<diskVars, now, phase, raised, last_call, dataVars, tabs_dict, curTab,
                   presentation_mode, baseline_height, normal_geom, timerVars, editor, log_writer, opened_config>>
    /\ Observe

\* a presentation window placed at the screen origin instead of where the
\* window was: the variant C6 has to tell from lines 999-1000
PresentationGeom_at_origin(g) == Geom(0, 0, PRESENTATION_MODE_WIDTH, PRESENTATION_MODE_HEIGHT)

\* toggle_presentation_mode, lines 991-1012
PresentationGeom(g) == Geom(g.x, g.y, PRESENTATION_MODE_WIDTH, PRESENTATION_MODE_HEIGHT)

TogglePresentationMode ==
    /\ phase = "running"
    /\ presentation_mode' = ~presentation_mode
    /\ IF presentation_mode'
       THEN /\ normal_geom' = geom
            /\ requests' = <<PresentationGeom(geom)>>
            /\ geom' = Clamp(PresentationGeom(geom))
       ELSE /\ normal_geom' = normal_geom
            /\ requests' = <<normal_geom>>
            /\ geom' = Clamp(normal_geom)
    /\ notes_toggled' = "none"
    /\ UNCHANGED <<diskVars, now, phase, raised, last_call, dataVars, tabVars,
                   baseline_height, timerVars, editor, log_writer, opened_config>>
    /\ Observe

\* mouseMoveEvent, lines 1056-1059: the window is dragged to pos
Drag(pos) ==
    /\ phase = "running"
    /\ geom' = Geom(pos.x, pos.y, geom.w, geom.h)
    /\ notes_toggled' = "none"
    /\ requests' = << >>
    /\ UNCHANGED <<diskVars, now, phase, raised, last_call, dataVars, tabVars,
                   presentation_mode, baseline_height, normal_geom, timerVars, editor, log_writer, opened_config>>
    /\ Observe

\* update_timer, lines 918-926
UpdateTimer ==
    /\ phase = "running"
    /\ elapsed_seconds' = elapsed_seconds + 1
    /\ timer_label' = FormatElapsed(elapsed_seconds')
    /\ notes_toggled' = "none"
    /\ requests' = << >>
    /\ UNCHANGED <<diskVars, now, phase, raised, last_call, dataVars, tabVars, layoutVars,
                   expanded_height, editor, log_writer, opened_config>>

\* n timeouts of the timer one after the other: update_timer runs n times
\* and the label keeps the text of the last run
UpdateTimerTimes(n) ==
    /\ phase = "running"
    /\ elapsed_seconds' = elapsed_seconds + n
    /\ timer_label' = FormatElapsed(elapsed_seconds')
    /\ notes_toggled' = "none"
    /\ requests' = << >>
    /\ UNCHANGED <<diskVars, now, phase, raised, last_call, dataVars, tabVars, layoutVars,
                   expanded_height, editor, log_writer, opened_config>>

\* a reset that counts the second it is pressed in: the variant C25 has to
\* tell from reset_timer
ResetTimer_to_one ==
    /\ phase = "running"
    /\ elapsed_seconds' = 1
    /\ timer_label' = <<"0", "0", ":", "0", "0", ":", "0", "1">>
    /\ notes_toggled' = "none"
    /\ requests' = << >>
    /\ UNCHANGED <<diskVars, now, phase, raised, last_call, dataVars, tabVars, layoutVars,
                   expanded_height, editor, log_writer, opened_config>>

\* reset_timer, lines 928-931
ResetTimer ==
    /\ phase = "running"
    /\ elapsed_seconds' = 0
    /\ timer_label' = <<"0", "0", ":", "0", "0", ":", "0", "0">>
    /\ notes_toggled' = "none"
    /\ requests' = << >>
    /\ UNCHANGED <<diskVars, now, phase, raised, last_call, dataVars, tabVars, layoutVars,
                   expanded_height, editor, log_writer, opened_config>>

\* export_log, lines 940-947
ExportLog(outcome) ==
    /\ phase = "running"
    /\ IF curTab # 0
       THEN /\ sessionLogs' =
                  save_session_log(sessionLogs, log_name(tabs[curTab].tab_name),
                                   tabs[curTab].work_log, now, outcome)
            /\ log_writer' =
                  IF outcome = "open_failed" THEN log_writer
                  ELSE Put(log_writer, <<log_name(tabs[curTab].tab_name), now>>,
                           tabs[curTab].tab_name)
            /\ raised' = (outcome # "written" /\ ~ExceptException("OSError"))
            /\ last_call' = "save_session_log"
       ELSE UNCHANGED <<sessionLogs, log_writer, raised, last_call>>
    /\ notes_toggled' = "none"
    /\ requests' = << >>
    /\ UNCHANGED <<tasksFile, configFile, now, phase, dataVars, tabVars, layoutVars,
                   timerVars, expanded_height, editor, opened_config>>

(***************************************************************************)
(* The notes editor (lines 328-335) and _convert_urls_to_links (lines      *)
(* 349-381).  A note text is a sequence of pieces: a piece is a character, *)
(* or the scheme of a URL written as one piece.  The document of the       *)
(* editor is a sequence of cells, one for each piece it shows, with the    *)
(* target of the link the piece belongs to (<< >>: not in a link).         *)
(***************************************************************************)
Schemes == {"http://", "https://", "ftp://"}

\* \s of url_pattern
IsSpace(c) == c \in Whitespace

Cell(c, href) == [ch |-> c, href |-> href]

toPlainText(doc) == [k \in 1..Len(doc) |-> doc[k].ch]

\* '"<a href=" in self.work_log.toHtml()': toHtml writes the tag for the
\* pieces of a link and escapes a "<" of the text
HasAnchor(doc) == \E k \in 1..Len(doc) : doc[k].href # << >>

\* the last piece of the match of url_pattern that begins at piece i, 0 when
\* no match begins there: a scheme and one or more pieces that are not
\* white space, as many as there are
MatchEnd(text, i) ==
    IF text[i] \in Schemes /\ i < Len(text) /\ ~IsSpace(text[i + 1])
    THEN CHOOSE j \in (i + 1)..Len(text) :
            /\ \A k \in (i + 1)..j : ~IsSpace(text[k])
            /\ j = Len(text) \/ IsSpace(text[j + 1])
    ELSE 0

RECURSIVE Sub(_, _)
\* re.sub(url_pattern, '<a href="\1" ...>\1</a>', text) from piece i on: the
\* matches are taken from left to right and do not overlap
Sub(text, i) ==
    IF i > Len(text) THEN << >>
    ELSE IF MatchEnd(text, i) # 0
         THEN [k \in 1..(MatchEnd(text, i) - i + 1) |->
                    Cell(text[i + k - 1], SubSeq(text, i, MatchEnd(text, i)))]
                \o Sub(text, MatchEnd(text, i) + 1)
         ELSE <<Cell(text[i], << >>)>> \o Sub(text, i + 1)

RECURSIVE Shown(_, _)
\* the cells an HTML document shows from cell k on: white space between the
\* tags is collapsed, a run of it shows as one space and none shows at the
\* start of the text
Shown(cells, k) ==
    IF k > Len(cells) THEN << >>
    ELSE IF ~IsSpace(cells[k].ch) THEN <<cells[k]>> \o Shown(cells, k + 1)
    ELSE IF k > 1 /\ ~IsSpace(cells[k - 1].ch)
         THEN <<Cell(" ", << >>)>> \o Shown(cells, k + 1)
         ELSE Shown(cells, k + 1)

\* work_log.setHtml(html_text)
setHtml(cells) == Shown(cells, 1)

\* a conversion that substitutes in the HTML of the document, without the
\* test of line 352: the markup of a link is matched again and is left in
\* the text.  The variant C21 has to tell from _convert_urls_to_links
convert_urls_of_html(doc) ==
    IF HasAnchor(doc) THEN doc \o <<Cell("\"", << >>)>>
    ELSE IF HasAnchor(Sub(toPlainText(doc), 1)) THEN setHtml(Sub(toPlainText(doc), 1))
    ELSE doc

\* _convert_urls_to_links, the slot of work_log.textChanged
convert_urls_to_links(doc) ==
    IF HasAnchor(doc) THEN doc
    ELSE IF HasAnchor(Sub(toPlainText(doc), 1)) THEN setHtml(Sub(toPlainText(doc), 1))
    ELSE doc

\* the editor's document becomes doc and textChanged is emitted
EditorStep(doc) ==
    /\ editor' = convert_urls_to_links(doc)
    /\ UNCHANGED <<diskVars, now, phase, raised, last_call, dataVars, tabVars, layoutVars,
                   timerVars, outVars, expanded_height, log_writer, opened_config>>

\* work_log.setText(notes) of on_task_selected (line 500), or a text pasted
\* into the empty editor
SetText(text) ==
    /\ editor = << >>
    /\ EditorStep([k \in 1..Len(text) |-> Cell(text[k], << >>)])

\* the user types a piece at the end of the text; the piece takes the
\* character format at the cursor, that of the piece before it or none
InsertText(piece, inherit) ==
    EditorStep(editor \o <<Cell(piece, IF inherit /\ editor # << >>
                                        THEN Last(editor).href ELSE << >>)>>)

\* work_log.clear() (line 514)
ClearText == editor # << >> /\ EditorStep(<< >>)

(***************************************************************************)
(* SettingsDialog (lines 541-687), opened by open_settings (lines 980-985) *)
(* on the config object of the widget itself.                              *)
(***************************************************************************)
Names == {"Team A", "Team B", "team_a", "Team_A", "SAP Project"}

\* the name a text spells
NameOf(text) == CHOOSE name \in Names : Chars(name) = text

\* open_settings, line 982: SettingsDialog(self.config, self) is shown.  The
\* history variable opened_config is left to the specification that takes the
\* step: it records the Config the dialog found, or leaves the record alone.
OpenSettings ==
    /\ phase = "running"
    /\ phase' = "settings"
    /\ notes_toggled' = "none"
    /\ requests' = << >>
    /\ UNCHANGED <<diskVars, now, raised, last_call, dataVars, tabVars, layoutVars,
                   timerVars, expanded_height, editor, log_writer>>

\* add_team: accepted is the result of dialog.exec()
add_team(teams, accepted, input) ==
    IF accepted /\ Strip(input) # << >>
    THEN Append(teams, Team(NameOf(Strip(input)), "#89b4fa"))
    ELSE teams

\* edit_team: current is the selected row counted from 1, 0 when none is
edit_team(teams, current, accepted, input) ==
    IF current < 1 THEN teams
    ELSE IF accepted /\ Strip(input) # << >>
         THEN [teams EXCEPT ![current].name = NameOf(Strip(input))]
         ELSE teams

\* remove_team: yes is the answer to the question of line 677
remove_team(teams, current, yes) ==
    IF current < 1 THEN teams
    ELSE IF Len(teams) <= 1 THEN teams
    ELSE IF yes THEN SubSeq(teams, 1, current - 1) \o SubSeq(teams, current + 1, Len(teams))
    ELSE teams

\* a handler of the dialog ran and left self.config.teams as teams
SettingsStep(teams) ==
    /\ phase = "settings"
    /\ config' = [config EXCEPT !.teams = teams]
    /\ notes_toggled' = "none"
    /\ requests' = << >>
    /\ UNCHANGED <<diskVars, now, phase, raised, last_call, worklog, tabVars, layoutVars,
                   timerVars, expanded_height, editor, log_writer, opened_config>>

AddTeam(accepted, input) == SettingsStep(add_team(config.teams, accepted, input))

EditTeam(current, accepted, input) ==
    SettingsStep(edit_team(config.teams, current, accepted, input))

RemoveTeam(current, yes) == SettingsStep(remove_team(config.teams, current, yes))

\* open_settings, lines 983-985: the dialog was accepted; get_config
\* (lines 684-687) reads the check box
AcceptSettings(checked, outcome) ==
    /\ phase = "settings"
    /\ phase' = "running"
    /\ config' = [config EXCEPT !.notes_collapsed = checked]
    /\ configFile' = save_config(configFile, config', outcome)
    /\ raised' = (outcome # "written" /\ ~ExceptException("OSError"))
    /\ last_call' = "save_config"
    /\ notes_toggled' = "none"
    /\ requests' = << >>
    /\ UNCHANGED <<tasksFile, sessionLogs, now, worklog, tabVars, layoutVars, timerVars,
                   expanded_height, editor, log_writer, opened_config>>

\* the dialog was closed without accepting
RejectSettings ==
    /\ phase = "settings"
    /\ phase' = "running"
    /\ notes_toggled' = "none"
    /\ requests' = << >>
    /\ UNCHANGED <<diskVars, now, raised, last_call, dataVars, tabVars, layoutVars,
                   timerVars, expanded_height, editor, log_writer, opened_config>>

(***************************************************************************)
(* The session of the task registry: the files it starts from, and the     *)
(* handlers of the displayed tab.                                          *)
(***************************************************************************)
ConfigDoc(teams, height, collapsed) ==
    [teams |-> teams, window_width |-> WINDOW_WIDTH, window_height |-> height,
     window_x |-> DEFAULT_WINDOW_X, window_y |-> DEFAULT_WINDOW_Y,
     notes_collapsed |-> collapsed, presentation_mode |-> FALSE]

TaskFiles ==
    {MissingFile,
     File("object", [teams |-> [name \in {"Team A"} |-> <<DocTaskFull>>],
                     session_notes |-> EmptyMap, session_start |-> <<0>>])}

TaskConfigFiles ==
    {File("object", ConfigDoc(<<Team("Team A", "#74c7ec"), Team("team_a", "#89b4fa")>>,
                              WINDOW_HEIGHT, FALSE))}

AddInputs == {<< >>, <<" ", " ">>, <<" ", "h", "i", " ">>}
NoteTexts == {<< >>, <<"n">>}

RECURSIVE SumLen(_, _)
SumLen(ts, k) == IF k = 0 THEN 0 ELSE Len(ts[k].tasks) + SumLen(ts, k - 1)
TotalTasks == SumLen(tabs, Len(tabs))

InitTasks ==
    /\ tasksFile \in TaskFiles
    /\ configFile \in TaskConfigFiles
    /\ InitMemory

NextTasks ==
    \/ Startup
    \/ (now < MaxClock /\ ClockTick)
    \/ \E input \in AddInputs : TotalTasks < MaxTasks /\ curTab # 0 /\ AddTask(curTab, input)
    \/ \E idx \in 1..MaxTasks : curTab # 0 /\ idx <= Len(tabs[curTab].tasks) /\ SelectTask(curTab, idx)
    \/ \E text \in NoteTexts : curTab # 0 /\ EditNotes(curTab, text)
    \/ (curTab # 0 /\ CompleteTask(curTab))
    \/ (curTab # 0 /\ DeleteTask(curTab))
    \/ \E i \in 1..Len(tabs) : SwitchTab(i)
    \/ Close("written", "written")

SpecTasks == InitTasks /\ [][NextTasks]_vars

(***************************************************************************)
(* The task list of one category: a session with a single tab, long enough *)
(* for a list to hold a task between two tasks equal to each other.        *)
(***************************************************************************)
ListConfigFiles ==
    {File("object", ConfigDoc(<<Team("Team A", "#74c7ec")>>, WINDOW_HEIGHT, FALSE))}

InitTaskList ==
    /\ tasksFile = MissingFile
    /\ configFile \in ListConfigFiles
    /\ InitMemory

NextTaskList ==
    \/ Startup
    \/ (now < MaxClock /\ ClockTick)
    \/ \E input \in AddInputs :
            TotalTasks < MaxListTasks /\ curTab # 0 /\ AddTask(curTab, input)
    \/ \E idx \in 1..MaxListTasks :
            curTab # 0 /\ idx <= Len(tabs[curTab].tasks) /\ SelectTask(curTab, idx)
    \/ \E text \in NoteTexts : curTab # 0 /\ EditNotes(curTab, text)
    \/ (curTab # 0 /\ CompleteTask(curTab))
    \/ (curTab # 0 /\ DeleteTask(curTab))

SpecTaskList == InitTaskList /\ [][NextTaskList]_vars

(***************************************************************************)
(* The session of the layout: the configurations it starts from, and the   *)
(* handlers that move or resize the window.                                *)
(***************************************************************************)
\* two categories are enough for the tabs to differ in their notes flags
LayoutConfigFiles ==
    {File("object", ConfigDoc(teams, height, collapsed)) :
        teams \in {<<Team("Team A", "#74c7ec"), Team("Team B", "#cba6f7")>>},
        height \in {WINDOW_HEIGHT, 600},
        collapsed \in BOOLEAN}

InitLayout ==
    /\ tasksFile = MissingFile
    /\ configFile \in LayoutConfigFiles
    /\ InitMemory

NextLayout ==
    \/ Startup
    \/ (curTab # 0 /\ ToggleNotes(curTab))
    \/ TogglePresentationMode
    \/ \E i \in 1..Len(tabs) : SwitchTab(i)
    \/ \E pos \in {[x |-> 40, y |-> 30]} : Drag(pos)
    \/ (elapsed_seconds < MaxElapsed /\ UpdateTimer)
    \/ ResetTimer
    \/ \E input \in AddInputs :
            TotalTasks < MaxLayoutTasks /\ curTab # 0 /\ AddTask(curTab, input)
    \/ \E idx \in 1..MaxLayoutTasks :
            curTab # 0 /\ idx <= Len(tabs[curTab].tasks) /\ SelectTask(curTab, idx)
    \/ (curTab # 0 /\ CompleteTask(curTab))
    \/ (curTab # 0 /\ DeleteTask(curTab))
    \/ Close("written", "written")

SpecLayout == InitLayout /\ [][NextLayout]_vars

(***************************************************************************)
(* The session that saves: tasks are added, selected and annotated, and    *)
(* the work log is saved, exported and written at close, with writes that  *)
(* succeed or fail.  The configurations are one with a single category and *)
(* the one the program wrote for it after add_team gave a second category  *)
(* the name of the first.                                                  *)
(***************************************************************************)
SessionConfigFiles ==
    {File("object", ConfigDoc(<<Team("Team A", "#74c7ec")>>, WINDOW_HEIGHT, FALSE)),
     File("object", ConfigDoc(<<Team("Team A", "#74c7ec"), Team("Team A", "#89b4fa")>>,
                              WINDOW_HEIGHT, FALSE))}

InitSession ==
    /\ tasksFile = MissingFile
    /\ configFile \in SessionConfigFiles
    /\ InitMemory

NextSession ==
    \/ Startup
    \/ \E input \in AddInputs :
            TotalTasks < MaxSessionTasks /\ curTab # 0 /\ AddTask(curTab, input)
    \/ \E idx \in 1..MaxSessionTasks :
            curTab # 0 /\ idx <= Len(tabs[curTab].tasks) /\ SelectTask(curTab, idx)
    \/ \E text \in NoteTexts : curTab # 0 /\ EditNotes(curTab, text)
    \/ \E i \in 1..Len(tabs) : SwitchTab(i)
    \/ \E outcome \in WriteOutcomes : SaveAll(outcome)
    \/ \E outcome \in WriteOutcomes : ExportLog(outcome)
    \/ \E outcome \in WriteOutcomes : \E configOutcome \in WriteOutcomes :
            Close(outcome, configOutcome)

SpecSession == InitSession /\ [][NextSession]_vars

(***************************************************************************)
(* The notes editor alone: texts of up to MaxNoteLen pieces are set into   *)
(* the empty editor or typed piece by piece.                               *)
(***************************************************************************)
Pieces == {"http://", "ftp://", "a", " ", "\n"}

\* the texts of up to n pieces
TextsUpTo(n) == UNION {[1..m -> Pieces] : m \in 0..n}

InitLinkify ==
    /\ tasksFile = MissingFile
    /\ configFile = MissingFile
    /\ InitMemory

NextLinkify ==
    \/ (editor = << >> /\ \E text \in TextsUpTo(MaxNoteLen) : SetText(text))
    \/ \E piece \in Pieces : \E inherit \in BOOLEAN :
            Len(editor) < MaxNoteLen /\ InsertText(piece, inherit)
    \/ ClearText

SpecLinkify == InitLinkify /\ [][NextLinkify]_vars

(***************************************************************************)
(* The exports of a session: two categories whose names differ in a space  *)
(* and an underscore, the notes typed into their editors, and the clock.   *)
(***************************************************************************)
ExportConfigFiles ==
    {File("object", ConfigDoc(<<Team("Team A", "#74c7ec"), Team("Team_A", "#89b4fa")>>,
                              WINDOW_HEIGHT, FALSE))}

InitExport ==
    /\ tasksFile = MissingFile
    /\ configFile \in ExportConfigFiles
    /\ InitMemory

NextExport ==
    \/ Startup
    \/ (now < MaxClock /\ ClockTick)
    \/ \E text \in NoteTexts : curTab # 0 /\ EditNotes(curTab, text)
    \/ \E i \in 1..Len(tabs) : SwitchTab(i)
    \/ \E outcome \in WriteOutcomes : ExportLog(outcome)

SpecExport == InitExport /\ [][NextExport]_vars

(***************************************************************************)
(* Sessions one after the other: a session is closed in any layout, the    *)
(* process ends, and the next one starts from the files the last one left. *)
(***************************************************************************)
RestartConfigFiles ==
    {File("object", ConfigDoc(teams, WINDOW_HEIGHT, collapsed)) :
        teams \in {<<Team("Team A", "#74c7ec")>>,
                   <<Team("Team A", "#74c7ec"), Team("Team A", "#89b4fa")>>},
        collapsed \in BOOLEAN}

InitRestart ==
    /\ tasksFile = MissingFile
    /\ configFile \in RestartConfigFiles
    /\ InitMemory

NextRestart ==
    \/ Startup
    \/ (curTab # 0 /\ ToggleNotes(curTab))
    \/ TogglePresentationMode
    \/ \E i \in 1..Len(tabs) : SwitchTab(i)
    \/ Close("written", "written")
    \/ Exit

SpecRestart == InitRestart /\ [][NextRestart]_vars

(***************************************************************************)
(* The session clock over long sessions: after the start or a reset the    *)
(* timer fires any of the numbers of times that put the hours, the minutes *)
(* and the seconds at the ends of their ranges.                            *)
(***************************************************************************)
ClockSeconds ==
    {h * 3600 + m * 60 + s : h \in {0, 1, 23, 24, MaxHours - 1, MaxHours},
                             m \in {0, 1, 9, 10, 59},
                             s \in {0, 1, 9, 10, 59}} \ {0}

ClockConfigFiles ==
    {MissingFile,
     File("object", ConfigDoc(<<Team("Team A", "#74c7ec")>>, WINDOW_HEIGHT, FALSE))}

InitClock ==
    /\ tasksFile = MissingFile
    /\ configFile \in ClockConfigFiles
    /\ InitMemory

NextClock ==
    \/ Startup
    \/ \E n \in ClockSeconds : elapsed_seconds = 0 /\ UpdateTimerTimes(n)
    \/ ResetTimer

SpecClock == InitClock /\ [][NextClock]_vars

(***************************************************************************)
(* A work log and a configuration that do not name the same categories:    *)
(* the work log holds "Team B", which the configuration lacks, and holds   *)
(* or lacks "Team A", the category of the configuration.                   *)
(***************************************************************************)
DocTaskB ==
    [id |-> task_id(tab_id_of("Team B"), 0), title |-> <<"y", "o">>,
     created_at |-> <<0>>, completed |-> FALSE, notes |-> <<"n">>]

MismatchTaskFiles ==
    {File("object", [teams |-> teams, session_notes |-> "standup" :> <<"n">>,
                     session_start |-> <<0>>]) :
        teams \in {"Team B" :> <<DocTaskB>>,
                   "Team A" :> <<DocTaskFull>> @@ "Team B" :> <<DocTaskB>>}}

MismatchConfigFiles ==
    {File("object", ConfigDoc(<<Team("Team A", "#74c7ec")>>, WINDOW_HEIGHT, FALSE))}

InitMismatch ==
    /\ tasksFile \in MismatchTaskFiles
    /\ configFile \in MismatchConfigFiles
    /\ InitMemory

NextMismatch ==
    \/ Startup
    \/ \E input \in AddInputs :
            TotalTasks < MaxSessionTasks /\ curTab # 0 /\ AddTask(curTab, input)
    \/ \E idx \in 1..MaxSessionTasks :
            curTab # 0 /\ idx <= Len(tabs[curTab].tasks) /\ SelectTask(curTab, idx)
    \/ \E text \in NoteTexts : curTab # 0 /\ EditNotes(curTab, text)
    \/ (curTab # 0 /\ CompleteTask(curTab))
    \/ (curTab # 0 /\ DeleteTask(curTab))
    \/ \E outcome \in WriteOutcomes : SaveAll(outcome)
    \/ Close("written", "written")

SpecMismatch == InitMismatch /\ [][NextMismatch]_vars

(***************************************************************************)
(* The configuration: the documents CONFIG_FILE may hold, load_config and  *)
(* save_config applied to them, and the settings dialog of a session       *)
(* started from them.                                                      *)
(***************************************************************************)
ConfigStoreFiles ==
    {MissingFile, File("unreadable", EmptyMap), File("badjson", EmptyMap),
     File("nonobject", EmptyMap), File("object", EmptyMap),
     File("object", "teams" :> << >>),
     File("object", "window_height" :> 600)} \cup
    {File("object", ConfigDoc(teams, height, collapsed)) :
        teams \in {<<Team("Team A", "#74c7ec")>>,
                   <<Team("Team A", "#74c7ec"), Team("Team B", "#cba6f7")>>},
        height \in {WINDOW_HEIGHT, 600},
        collapsed \in BOOLEAN}

SettingsInputs == {<< >>, <<" ">>, <<" ">> \o Chars("Team A") \o <<" ">>, Chars("Team B")}

InitConfig ==
    /\ tasksFile = MissingFile
    /\ configFile \in ConfigStoreFiles
    /\ InitMemory

NextConfig ==
    \/ Call_load_config
    \/ \E outcome \in WriteOutcomes : Call_save_config(outcome)
    \/ Startup
    \/ (OpenSettings /\ UNCHANGED opened_config)
    \/ \E accepted \in BOOLEAN : \E input \in SettingsInputs :
            Len(config.teams) < MaxTeams /\ AddTeam(accepted, input)
    \/ \E current \in 0..MaxTeams : \E accepted \in BOOLEAN : \E input \in SettingsInputs :
            current <= Len(config.teams) /\ EditTeam(current, accepted, input)
    \/ \E current \in 0..MaxTeams : \E yes \in BOOLEAN :
            current <= Len(config.teams) /\ RemoveTeam(current, yes)
    \/ \E checked \in BOOLEAN : \E outcome \in WriteOutcomes : AcceptSettings(checked, outcome)
    \/ RejectSettings

SpecConfig == InitConfig /\ [][NextConfig]_vars

(***************************************************************************)
(* The settings dialog with the Config it found recorded: the dialog is    *)
(* opened, its handlers run, and it is accepted or dismissed.              *)
(***************************************************************************)
InitSettings ==
    /\ tasksFile = MissingFile
    /\ configFile \in SessionConfigFiles
    /\ InitMemory

NextSettings ==
    \/ Startup
    \/ (OpenSettings /\ opened_config' = config)
    \/ \E accepted \in BOOLEAN : \E input \in SettingsInputs :
            Len(config.teams) < MaxTeams /\ AddTeam(accepted, input)
    \/ \E current \in 0..MaxTeams : \E accepted \in BOOLEAN : \E input \in SettingsInputs :
            current <= Len(config.teams) /\ EditTeam(current, accepted, input)
    \/ \E current \in 0..MaxTeams : \E yes \in BOOLEAN :
            current <= Len(config.teams) /\ RemoveTeam(current, yes)
    \/ \E checked \in BOOLEAN : AcceptSettings(checked, "written")
    \/ RejectSettings
    \/ Close("written", "written")

SpecSettings == InitSettings /\ [][NextSettings]_vars

(***************************************************************************)
(* Claims.                                                                 *)
(***************************************************************************)

\* the document save_worklog writes for the work log held in memory
WrittenFromMemory == tasksFile = File("object", WorkLog_to_dict(worklog))

\* C2 as stated: for every WorkLog value, the empty set of categories
\* included, loading the document that save_worklog wrote for it returns the
\* same value, field for field.
C2_RoundTripEveryWorkLog ==
    [][(Call_load_worklog /\ WrittenFromMemory) => worklog' = worklog]_vars

\* C2 amended: for every WorkLog value with at least one category, loading
\* the document that save_worklog wrote for it returns the same value: the
\* same category names, the same tasks in the same order with the same id,
\* title, created_at, completed and notes, the same session_notes and
\* session_start.
C2_RoundTripWithCategories ==
    [][(Call_load_worklog /\ WrittenFromMemory /\ DOMAIN worklog.teams # {})
            => worklog' = worklog]_vars

C2_Witness ==
    /\ last_call = "load_worklog"
    /\ WrittenFromMemory
    /\ worklog.session_notes # EmptyMap
    /\ \E name \in DOMAIN worklog.teams :
          /\ Len(worklog.teams[name]) = 2
          /\ worklog.teams[name][2].completed
          /\ worklog.teams[name][2].notes # << >>

\* a task record with a missing or an unknown field
BadTaskRecord(d) ==
    \/ \E k \in {"id", "title", "created_at"} : k \notin DOMAIN d
    \/ \E k \in DOMAIN d : k \notin {"id", "title", "created_at", "completed", "notes"}

\* the failure cases of a load: the file is missing, unreadable, not JSON, or
\* JSON that violates the schema (a root that is no object, a bad task record)
LoadFailureCase(file) ==
    \/ file.kind \in {"missing", "unreadable", "badjson", "nonobject"}
    \/ /\ file.kind = "object"
       /\ \/ /\ "teams" \in DOMAIN file.doc
             /\ \E name \in DOMAIN file.doc["teams"] :
                   \E j \in 1..Len(file.doc["teams"][name]) :
                       BadTaskRecord(file.doc["teams"][name][j])
          \/ \E key \in {"team_a", "team_b", "sap_project"} \cap DOMAIN file.doc :
                \E j \in 1..Len(file.doc[key]) : BadTaskRecord(file.doc[key][j])

\* C3: whatever the work-log file holds, load_worklog returns normally, and
\* in each failure case (missing, unreadable, not JSON, schema violated) it
\* returns a fresh WorkLog: no categories, no tasks, session_start = now.
C3_LoadNeverRaises ==
    [][Call_load_worklog =>
          /\ raised' = FALSE
          /\ LoadFailureCase(tasksFile) =>
                worklog' = [teams |-> EmptyMap, session_notes |-> EmptyMap,
                            session_start |-> <<now>>]]_vars

C3_Witness ==
    /\ last_call = "load_worklog"
    /\ ~raised
    /\ tasksFile.kind = "object"
    /\ LoadFailureCase(tasksFile)
    /\ "session_start" \in DOMAIN tasksFile.doc
    /\ worklog.teams = EmptyMap
    /\ worklog.session_start = <<now>>
    /\ now > 0

NameOfLegacyKey(key) ==
    CASE key = "team_a" -> "Team A"
      [] key = "team_b" -> "Team B"
      [] key = "sap_project" -> "SAP Project"

\* the in-memory tasks of a document's task list
Loaded(list) ==
    [j \in 1..Len(list) |->
        [id |-> list[j]["id"], title |-> list[j]["title"],
         created_at |-> list[j]["created_at"],
         completed |-> IF "completed" \in DOMAIN list[j] THEN list[j]["completed"] ELSE FALSE,
         notes |-> IF "notes" \in DOMAIN list[j] THEN list[j]["notes"] ELSE << >>]]

\* C5: when the loaded document has "teams" and legacy keys, the category of
\* each legacy key present holds exactly that key's task list, whatever
\* "teams" held under the name, and every category of "teams" with no legacy
\* key is loaded unchanged.
C5_LegacyKeysWin ==
    [][(Call_load_worklog /\ tasksFile.kind = "object" /\ ~LoadFailureCase(tasksFile)
            /\ "teams" \in DOMAIN tasksFile.doc)
        => LET doc == tasksFile.doc
               legacy == {"team_a", "team_b", "sap_project"} \cap DOMAIN doc
           IN /\ \A key \in legacy :
                    /\ NameOfLegacyKey(key) \in DOMAIN worklog'.teams
                    /\ worklog'.teams[NameOfLegacyKey(key)] = Loaded(doc[key])
              /\ \A name \in DOMAIN doc["teams"] :
                    (\A key \in legacy : NameOfLegacyKey(key) # name)
                        => /\ name \in DOMAIN worklog'.teams
                           /\ worklog'.teams[name] = Loaded(doc["teams"][name])]_vars

C5_Witness ==
    /\ last_call = "load_worklog"
    /\ tasksFile.kind = "object"
    /\ {"teams", "team_a"} \subseteq DOMAIN tasksFile.doc
    /\ "team_b" \notin DOMAIN tasksFile.doc
    /\ {"Team A", "Team B"} \subseteq DOMAIN tasksFile.doc["teams"]
    /\ {"Team A", "Team B"} \subseteq DOMAIN worklog.teams
    /\ Len(tasksFile.doc["teams"]["Team A"]) = 2
    /\ Len(worklog.teams["Team A"]) = 1
    /\ worklog.teams["Team A"] = Loaded(tasksFile.doc["team_a"])
    /\ Len(worklog.teams["Team B"]) = 2

(***************************************************************************)
(* Claims on the task registry, checked under SpecTasks.                   *)
(***************************************************************************)
\* the indices a selection in the displayed tab can name
SelectableRows == IF curTab = 0 THEN {} ELSE 1..Len(tabs[curTab].tasks)

\* C1: when task A is current, the notes buffer has been edited, and another
\* task B is selected, the selection first writes the buffer into A.notes:
\* after the step A.notes is the text the buffer held.
C1_SelectFlushesBuffer ==
    [][\A idx \in SelectableRows :
          (SelectTask(curTab, idx) /\ tabs[curTab].current_task \notin {0, idx})
              => tabs'[curTab].tasks[tabs[curTab].current_task].notes
                    = tabs[curTab].work_log]_vars

\* every task present, as <<tab, row>>
TaskSlots == {s \in (1..Len(tabs)) \X (1..MaxTasks + 1) : s[2] <= Len(tabs[s[1]].tasks)}

\* C4: no two tasks present at the same time, in the same category or in
\* different ones, have the same id (the first half of the claim; an id that
\* is never given twice is in particular never held twice).
C4_TaskIdsUnique ==
    \A s1 \in TaskSlots : \A s2 \in TaskSlots :
        s1 # s2 => tabs[s1[1]].tasks[s1[2]].id # tabs[s2[1]].tasks[s2[2]].id

(***************************************************************************)
(* Claims on the layout, checked under SpecLayout.                         *)
(***************************************************************************)
\* the notes mode under the presentation flag
NotesMode == ModeOf(FALSE, tabs, curTab)

Running == phase = "running" /\ phase' = "running"

\* C6: entering Presentation asks for a 300 by 80 window at the x and y the
\* window had and remembers the bounds it had; while in Presentation a tick,
\* a drag or an operation on tasks changes neither the remembered bounds nor
\* the notes mode; leaving Presentation gives the window the remembered
\* bounds exactly and leaves the notes mode as it was.  Together: a round trip
\* without a notes toggle in between restores the bounds and the notes mode
\* held just before entry.
C6_PresentationRoundTrip ==
    [][/\ (Running /\ ~presentation_mode /\ presentation_mode')
            => /\ normal_geom' = geom
               /\ requests' = <<[x |-> geom.x, y |-> geom.y, w |-> 300, h |-> 80]>>
               /\ NotesMode' = NotesMode
               /\ Mode' = "Presentation"
       /\ (Running /\ presentation_mode /\ presentation_mode' /\ notes_toggled' = "none")
            => /\ normal_geom' = normal_geom
               /\ NotesMode' = NotesMode
       /\ (Running /\ presentation_mode /\ ~presentation_mode')
            => /\ geom' = normal_geom
               /\ NotesMode' = NotesMode
               /\ Mode' = NotesMode]_vars

\* a window that was dragged, collapsed, taken through Presentation while
\* the timer ran and a task was there, and is back with its bounds
C6_Witness ==
    /\ phase = "running"
    /\ ~presentation_mode
    /\ normal_geom # NoGeom
    /\ requests = <<normal_geom>>
    /\ geom = normal_geom
    /\ geom.x = 40
    /\ Mode = "Collapsed"
    /\ elapsed_seconds > 0
    /\ TotalTasks > 0

\* C7: in Expanded with window height H, toggleNotes asks for height H - 85
\* and leaves the layout Collapsed; the next toggleNotes gives the window
\* the height H again, H being the height last seen in Expanded, and leaves
\* the layout Expanded.
C7_ToggleNotesHeights ==
    [][(curTab # 0 /\ ~presentation_mode /\ ToggleNotes(curTab))
          => /\ Mode = "Expanded"
                  => /\ requests' = <<[geom EXCEPT !.h = geom.h - 85]>>
                     /\ Mode' = "Collapsed"
             /\ (Mode = "Collapsed" /\ expanded_height # 0)
                  => /\ geom'.h = expanded_height
                     /\ Mode' = "Expanded"]_vars

\* C8: toggleNotes in Presentation changes neither the notes mode nor the
\* window nor anything else, and emits no notes-toggled event.
C8_ToggleNotesIgnoredInPresentation ==
    [][(curTab # 0 /\ presentation_mode /\ ToggleNotes(curTab))
          => /\ NotesMode' = NotesMode
             /\ tabs' = tabs
             /\ geom' = geom
             /\ notes_toggled' = "none"]_vars

\* C9: a start from a configuration with notes_collapsed true and at least
\* one category ends in Collapsed, with the height baseline_height - 85
\* asked for, baseline_height being the persisted window_height whatever it
\* is, and with no notes-toggled event.
C9_StartCollapsed ==
    [][(Startup /\ phase' = "running" /\ config'.notes_collapsed /\ curTab' # 0)
          => /\ Mode' = "Collapsed"
             /\ baseline_height' = config'.window_height
             /\ Last(requests').h = baseline_height' - 85
             /\ notes_toggled' = "none"]_vars

\* C10: after a close, in whatever mode, the window_height written to the
\* configuration file is the height the window last had in Expanded.
C10_CloseWritesExpandedHeight ==
    (phase = "closed" /\ configFile.kind = "object" /\ expanded_height # 0)
        => configFile.doc.window_height = expanded_height

(***************************************************************************)
(* Claims on the handlers of one category, checked under SpecTasks.        *)
(***************************************************************************)
\* a text of white space only, the empty text included
OnlyWhitespace(input) == \A k \in 1..Len(input) : input[k] \in {" ", "\t", "\n"}

\* title is input without the white space at its two ends
IsTrimOf(title, input) ==
    /\ title # << >>
    /\ title[1] \notin {" ", "\t", "\n"}
    /\ title[Len(title)] \notin {" ", "\t", "\n"}
    /\ \E a \in 0..Len(input) :
          /\ a + Len(title) <= Len(input)
          /\ SubSeq(input, a + 1, a + Len(title)) = title
          /\ OnlyWhitespace(SubSeq(input, 1, a))
          /\ OnlyWhitespace(SubSeq(input, a + Len(title) + 1, Len(input)))

\* the step left the memory and the files as they were and raised nothing
NothingChanged ==
    /\ tabs' = tabs
    /\ worklog' = worklog
    /\ config' = config
    /\ curTab' = curTab
    /\ tasksFile' = tasksFile
    /\ configFile' = configFile
    /\ phase' = phase
    /\ raised' = FALSE

\* C11: an add whose title is empty or white space only, and a complete or a
\* delete with no task selected, leave the task sequence, every task's
\* fields, the cursor and the edit buffer as they were, and raise nothing.
C11_InvalidIntentsChangeNothing ==
    [][curTab # 0 =>
          /\ \A input \in AddInputs :
                (OnlyWhitespace(input) /\ AddTask(curTab, input)) => NothingChanged
          /\ (tabs[curTab].current_task = 0 /\ CompleteTask(curTab)) => NothingChanged
          /\ (tabs[curTab].current_task = 0 /\ DeleteTask(curTab)) => NothingChanged]_vars

\* a tab with a task, no task selected and a text in the buffer: a blank add,
\* a complete and a delete are the invalid intents there
C11_Witness ==
    /\ phase = "running"
    /\ curTab # 0
    /\ Len(tabs[curTab].tasks) > 0
    /\ tabs[curTab].current_task = 0
    /\ tabs[curTab].work_log # << >>

\* C12: an add whose title is not empty after trimming appends exactly one
\* task, with the trimmed input as title, completed false and empty notes;
\* the tasks that were there keep their fields and order, and the cursor and
\* the edit buffer are as they were.
C12_AddAppendsTrimmedTask ==
    [][\A input \in AddInputs :
          (curTab # 0 /\ ~OnlyWhitespace(input) /\ AddTask(curTab, input))
            => LET old == tabs[curTab]
                   new == tabs'[curTab]
                   n == Len(old.tasks)
               IN /\ Len(new.tasks) = n + 1
                  /\ SubSeq(new.tasks, 1, n) = old.tasks
                  /\ IsTrimOf(new.tasks[n + 1].title, input)
                  /\ new.tasks[n + 1].completed = FALSE
                  /\ new.tasks[n + 1].notes = << >>
                  /\ new.current_task = old.current_task
                  /\ new.work_log = old.work_log
                  /\ \A k \in 1..Len(tabs) : k # curTab => tabs'[k] = tabs[k]]_vars

\* a task added behind a completed task with notes, while that task is
\* selected and the buffer holds a text
C12_Witness ==
    /\ phase = "running"
    /\ curTab # 0
    /\ Len(tabs[curTab].tasks) = 2
    /\ tabs[curTab].tasks[1].completed
    /\ tabs[curTab].tasks[1].notes # << >>
    /\ tabs[curTab].tasks[2] = Task(task_id(tabs[curTab].tab_id, now), <<"h", "i">>, <<now>>)
    /\ tabs[curTab].current_task = 1
    /\ tabs[curTab].work_log # << >>

\* C13: a complete with a task selected writes the text of the edit buffer
\* into that task's notes and sets its completed flag; the cursor stays on
\* the task, and every task keeps its place in the sequence.
C13_CompleteFlushesAndKeepsOrder ==
    [][(curTab # 0 /\ tabs[curTab].current_task # 0 /\ CompleteTask(curTab))
          => LET old == tabs[curTab]
                 new == tabs'[curTab]
                 cur == old.current_task
             IN /\ new.tasks = [old.tasks EXCEPT ![cur].completed = TRUE,
                                                 ![cur].notes = old.work_log]
                /\ new.current_task = cur]_vars

\* the second of two tasks is completed with the notes of the buffer and is
\* still the second and the selected one; the first is not completed
C13_Witness ==
    /\ phase = "running"
    /\ curTab # 0
    /\ Len(tabs[curTab].tasks) = 2
    /\ ~tabs[curTab].tasks[1].completed
    /\ tabs[curTab].tasks[2].completed
    /\ tabs[curTab].tasks[2].notes = <<"n">>
    /\ tabs[curTab].tasks[2].created_at = <<now>>
    /\ tabs[curTab].current_task = 2
    /\ tabs[curTab].work_log = <<"n">>

\* C14: a delete with a task selected removes that task and no other from
\* the sequence, the other tasks keep their fields and order, the cursor and
\* the edit buffer are empty afterwards, and a complete or a delete that
\* follows changes nothing.
C14_DeleteRemovesCurrent ==
    [][(curTab # 0 /\ tabs[curTab].current_task # 0 /\ DeleteTask(curTab))
          => LET old == tabs[curTab]
                 new == tabs'[curTab]
                 cur == old.current_task
             IN /\ new.tasks = SubSeq(old.tasks, 1, cur - 1)
                                 \o SubSeq(old.tasks, cur + 1, Len(old.tasks))
                /\ new.current_task = 0
                /\ new.work_log = << >>
                /\ complete_task(new) = new
                /\ delete_task(new) = new]_vars

(***************************************************************************)
(* Claims on the stores, checked under SpecStore.                          *)
(***************************************************************************)
\* the names of the categories a document gives: those under "teams" and
\* those of the legacy keys it has
CategoriesOf(doc) ==
    (IF "teams" \in DOMAIN doc THEN DOMAIN doc["teams"] ELSE {})
        \cup {NameOfLegacyKey(key) : key \in {"team_a", "team_b", "sap_project"} \cap DOMAIN doc}

\* C17: a load of a parseable document that gives no category returns
\* exactly the categories "Team A", "Team B" and "SAP Project", each with no
\* task; a load of a document that gives a category returns the categories
\* of the document and no other.
C17_DefaultCategoriesWhenNone ==
    [][(Call_load_worklog /\ tasksFile.kind = "object" /\ ~LoadFailureCase(tasksFile))
          => IF CategoriesOf(tasksFile.doc) = {}
             THEN /\ DOMAIN worklog'.teams = {"Team A", "Team B", "SAP Project"}
                  /\ \A name \in DOMAIN worklog'.teams : worklog'.teams[name] = << >>
             ELSE DOMAIN worklog'.teams = CategoriesOf(tasksFile.doc)]_vars

\* a document with an empty "teams" and no legacy key was loaded
C17_Witness ==
    /\ last_call = "load_worklog"
    /\ tasksFile.kind = "object"
    /\ "teams" \in DOMAIN tasksFile.doc
    /\ CategoriesOf(tasksFile.doc) = {}
    /\ "session_notes" \in DOMAIN tasksFile.doc
    /\ Cardinality(DOMAIN worklog.teams) = 3
    /\ worklog.session_notes # EmptyMap

(***************************************************************************)
(* Claims on the configuration, checked under SpecConfig.                  *)
(***************************************************************************)
\* C18: load_config never raises; for a missing, unreadable or corrupt file
\* (text that is not JSON, JSON whose root is no object) it returns the
\* three default categories with their colours, width 520, height 550, x 100,
\* y 100, notes_collapsed false and presentation_mode false; and a load of
\* the document save_config wrote for a Config returns that Config.
C18_LoadConfigDefaultsAndRoundTrip ==
    [][Call_load_config =>
          /\ raised' = FALSE
          /\ configFile.kind \in {"missing", "unreadable", "badjson", "nonobject"}
                => config' =
                     [teams |-> <<[name |-> "Team A", color |-> "#74c7ec"],
                                  [name |-> "Team B", color |-> "#cba6f7"],
                                  [name |-> "SAP Project", color |-> "#fab387"]>>,
                      window_width |-> 520, window_height |-> 550,
                      window_x |-> 100, window_y |-> 100,
                      notes_collapsed |-> FALSE, presentation_mode |-> FALSE]
          /\ (last_call # "none" /\ configFile = File("object", AppConfig_to_dict(config)))
                => config' = config]_vars

\* a Config of height 600 with collapsed notes was written and loaded again
C18_Witness ==
    /\ phase = "off"
    /\ last_call = "load_config"
    /\ ~raised
    /\ configFile = File("object", AppConfig_to_dict(config))
    /\ config.window_height = 600
    /\ config.notes_collapsed
    /\ Len(config.teams) = 2

\* C19: once loaded, the Config always holds at least one category, also
\* after the load of a parseable document whose "teams" list is empty and
\* after every add, edit and remove of a category; a remove asked for when
\* one category is left changes nothing.
C19_AtLeastOneCategory ==
    [][/\ last_call' # "none" => Len(config'.teams) >= 1
       /\ \A current \in 0..Len(config.teams) : \A yes \in BOOLEAN :
             (Len(config.teams) = 1 /\ RemoveTeam(current, yes)) => config' = config]_vars

\* the Config's category names, in order
TeamNames(c) == [k \in 1..Len(c.teams) |-> c.teams[k].name]

\* C20: once loaded, the category names of the Config are pairwise distinct:
\* no add and no edit leaves two categories with one name.
C20_CategoryNamesDistinct ==
    last_call # "none" =>
        \A j \in 1..Len(config.teams) : \A k \in 1..Len(config.teams) :
            j # k => TeamNames(config)[j] # TeamNames(config)[k]

(***************************************************************************)
(* Claims on saving, checked under SpecSession.                            *)
(***************************************************************************)
\* the task of row k of a tab as a save has to write it: with the text of
\* the buffer as notes when it is the selected one
TaskAsSaved(tab, k) ==
    IF k = tab.current_task THEN [tab.tasks[k] EXCEPT !.notes = tab.work_log]
    ELSE tab.tasks[k]

\* C15: a save, asked for or at close, whose write succeeds writes a
\* document that holds, for every category shown, its whole task sequence in
\* order, the selected task of each category with the text of that
\* category's buffer as notes and every other task with its fields.
C15_SaveFlushesEveryCategory ==
    [][(\/ last_call' = "save_worklog" /\ SaveAll("written")
        \/ phase' = "closed" /\ \E configOutcome \in WriteOutcomes : Close("written", configOutcome))
          => /\ tasksFile'.kind = "object"
             /\ \A i \in 1..Len(tabs) :
                   /\ tabs[i].tab_name \in DOMAIN tasksFile'.doc["teams"]
                   /\ tasksFile'.doc["teams"][tabs[i].tab_name]
                        = [k \in 1..Len(tabs[i].tasks) |-> TaskAsSaved(tabs[i], k)]]_vars

\* what a handler may do to the tabs before it writes: the notes of a
\* selected task become the text of the buffer
FlushedOrSame(old, new) ==
    \/ new = old
    \/ /\ old.current_task # 0
       /\ new = [old EXCEPT !.tasks[old.current_task].notes = old.work_log,
                            !.shared = TRUE]
    \/ new = [old EXCEPT !.shared = TRUE]

\* C16: a write that fails in save_worklog, save_config or save_session_log
\* lets the call return with no exception; the tasks, the cursors, the
\* buffers, the layout and the Config are what they are after the same step
\* with a write that succeeds, and a session that was not closed goes on.
C16_WriteFailureIsDropped ==
    [][/\ \A outcome \in {"open_failed", "write_failed"} :
            /\ (last_call' = "save_worklog" /\ SaveAll(outcome))
                 => /\ raised' = FALSE
                    /\ phase' = "running"
                    /\ \A i \in 1..Len(tabs) : FlushedOrSame(tabs[i], tabs'[i])
                    /\ UNCHANGED <<config, curTab, layoutVars, configFile, sessionLogs>>
            /\ (last_call' = "save_session_log" /\ ExportLog(outcome))
                 => /\ raised' = FALSE
                    /\ phase' = "running"
                    /\ UNCHANGED <<tabs, worklog, config, curTab, layoutVars,
                                   tasksFile, configFile>>
            /\ \A other \in WriteOutcomes :
                  (phase' = "closed" /\ (Close(outcome, other) \/ Close(other, outcome)))
                     => /\ raised' = FALSE
                        /\ \A i \in 1..Len(tabs) : FlushedOrSame(tabs[i], tabs'[i])
                        /\ config' = ClosedConfig
                        /\ UNCHANGED <<curTab, presentation_mode, geom, normal_geom>>]_vars

\* a save whose write failed after the file was opened: the file is cut
\* off, nothing was raised, the notes of the selected task are flushed and
\* the session runs
C16_Witness ==
    /\ phase = "running"
    /\ ~raised
    /\ last_call = "save_worklog"
    /\ tasksFile.kind = "badjson"
    /\ curTab # 0
    /\ tabs[curTab].current_task # 0
    /\ tabs[curTab].tasks[tabs[curTab].current_task].notes = <<"n">>


UrlStartOf(text, k) ==
    IF \E a \in 1..k : /\ text[a] \in Schemes
                       /\ \A m \in a..k : ~IsSpace(text[m])
                       /\ a < Len(text) /\ ~IsSpace(text[a + 1])
    THEN CHOOSE a \in 1..k :
            /\ text[a] \in Schemes
            /\ \A m \in a..k : ~IsSpace(text[m])
            /\ \A b \in 1..(a - 1) : ~(text[b] \in Schemes /\ \A m \in b..k : ~IsSpace(text[m]))
    ELSE 0

\* the last piece of the run without white space that piece k is in
RunEnd(text, k) ==
    CHOOSE j \in k..Len(text) :
        /\ \A m \in k..j : ~IsSpace(text[m])
        /\ j = Len(text) \/ IsSpace(text[j + 1])

\* a text with each of its URLs as a link to itself and the rest as it was
Linked(text) ==
    [k \in 1..Len(text) |->
        Cell(text[k], IF UrlStartOf(text, k) = 0 THEN << >>
                      ELSE SubSeq(text, UrlStartOf(text, k), RunEnd(text, k)))]

\* C22: after a text is set into the editor, and after a piece is typed at
\* the end of its text, every URL of the text is a link whose target and
\* visible text are that URL, and the rest of the text is unchanged.
C22_EveryUrlBecomesItsLink ==
    [][/\ editor = << >>
          => \A text \in TextsUpTo(MaxNoteLen) :
                SetText(text) => editor' = Linked(text)
       /\ \A piece \in Pieces : \A inherit \in BOOLEAN :
             InsertText(piece, inherit)
                => editor' = Linked(Append(toPlainText(editor), piece))]_vars


(***************************************************************************)
(* Claims on the exports, checked under SpecExport.                        *)
(***************************************************************************)
\* C23: an export that is written puts the note buffer of the displayed
\* category, as it is, into one file named with the clock's second, leaves
\* every other export file as it was, and replaces an existing export file
\* only if an export of the same category wrote it (within the same second).
C23_ExportNeverOverwritesAnother ==
    [][(last_call' = "save_session_log" /\ curTab # 0 /\ ExportLog("written"))
          => \E p \in DOMAIN sessionLogs' :
                /\ p[2] = now
                /\ sessionLogs'[p] = File("text", tabs[curTab].work_log)
                /\ DOMAIN sessionLogs' = DOMAIN sessionLogs \cup {p}
                /\ \A q \in DOMAIN sessionLogs : q # p => sessionLogs'[q] = sessionLogs[q]
                /\ p \in DOMAIN sessionLogs => log_writer[p] = tabs[curTab].tab_name]_vars


(***************************************************************************)
(* Claims on the start of a session, checked under SpecRestart.            *)
(***************************************************************************)
\* C24: a session starts Collapsed if the configuration file holds
\* notes_collapsed = true and Expanded otherwise, and never in presentation
\* mode, whatever presentation_mode the file holds.
C24_StartModeFromNotesCollapsed ==
    [][(phase = "off" /\ phase' = "running" /\ Startup)
          => /\ presentation_mode' = FALSE
             /\ ModeOf(presentation_mode', tabs', curTab')
                  = IF load_config(configFile).value.notes_collapsed
                    THEN "Collapsed" ELSE "Expanded"]_vars


(***************************************************************************)
(* Claims on the session clock.                                            *)
(***************************************************************************)
\* C25 (checked under SpecLayout): elapsed is never negative; it is 0 when
\* a session has started, whatever the files hold; a tick adds exactly 1; a
\* reset sets it to 0, leaves the session running and changes no task, no
\* layout and no Config state; and no other step changes it.
C25_ElapsedCountsTicks ==
    /\ [](elapsed_seconds >= 0)
    /\ [][/\ (phase = "off" /\ phase' = "running") => elapsed_seconds' = 0
          /\ (elapsed_seconds' # elapsed_seconds \/ timer_label' # timer_label)
                => (UpdateTimer \/ ResetTimer)
          /\ (timer_label' # timer_label /\ UpdateTimer)
                => elapsed_seconds' = elapsed_seconds + 1
          /\ (last_call' = last_call /\ ResetTimer)
                => /\ elapsed_seconds' = 0
                   /\ phase' = "running"
                   /\ UNCHANGED <<tabs, worklog, config, tabs_dict, curTab, layoutVars,
                                  diskVars>>]_vars

\* the clock has ticked in a session that holds a task and shows the
\* displayed category with its notes hidden
C25_Witness ==
    /\ phase = "running"
    /\ elapsed_seconds = 1
    /\ TotalTasks > 0
    /\ curTab # 0 /\ ~tabs[curTab].notes_visible


\* the number a sequence of decimal digits writes
DigitValue(c) == CHOOSE d \in 0..9 : DigitChar(d) = c

RECURSIVE NumberOf(_)
NumberOf(digits) ==
    IF digits = << >> THEN 0
    ELSE 10 * NumberOf(SubSeq(digits, 1, Len(digits) - 1)) + DigitValue(Last(digits))

\* the text is the hours, ":", two digits of minutes, ":", two digits of
\* seconds, with at least two digits of hours and no more than that but for
\* the digits the number of hours needs
IsRenderingOf(text, e) ==
    /\ Len(text) >= 8
    /\ text[Len(text) - 2] = ":"
    /\ text[Len(text) - 5] = ":"
    /\ \A k \in (1..Len(text)) \ {Len(text) - 2, Len(text) - 5} :
            \E d \in 0..9 : text[k] = DigitChar(d)
    /\ LET hours == NumberOf(SubSeq(text, 1, Len(text) - 6))
           minutes == NumberOf(SubSeq(text, Len(text) - 4, Len(text) - 3))
           seconds == NumberOf(SubSeq(text, Len(text) - 1, Len(text)))
       IN /\ hours = e \div 3600
          /\ minutes = (e % 3600) \div 60
          /\ seconds = e % 60
          /\ minutes < 60 /\ seconds < 60
          /\ Len(text) > 8 => text[1] # "0"

\* C26 (checked under SpecClock): the label shows elapsed as HH:MM:SS, the
\* hours not wrapped, each field padded to two digits: 3661 shows as
\* 01:01:01 and 360000 as 100:00:00.
C26_LabelRendersElapsed ==
    /\ IsRenderingOf(timer_label, elapsed_seconds)
    /\ elapsed_seconds = 3661
          => timer_label = <<"0", "1", ":", "0", "1", ":", "0", "1">>
    /\ elapsed_seconds = 360000
          => timer_label = <<"1", "0", "0", ":", "0", "0", ":", "0", "0">>

\* a hundred hours after the start
C26_Witness ==
    /\ phase = "running"
    /\ elapsed_seconds = 360000
    /\ Len(timer_label) = 9


(***************************************************************************)
(* Claims on a work log and a configuration with different categories,     *)
(* checked under SpecMismatch.                                             *)
(***************************************************************************)
\* the names of the categories of the Config
ConfigNames == {config.teams[k].name : k \in 1..Len(config.teams)}

\* a step of the running session: a category of the work log that the
\* Config lacks keeps its tasks, a save that is written writes them as they
\* are, no category leaves the work log, and session_notes and
\* session_start stay
MismatchKept ==
    /\ \A name \in DOMAIN worklog.teams :
          /\ name \in DOMAIN worklog'.teams
          /\ name \notin ConfigNames
                => /\ worklog'.teams[name] = worklog.teams[name]
                   /\ (tasksFile' # tasksFile /\ tasksFile'.kind = "object")
                         => /\ name \in DOMAIN tasksFile'.doc["teams"]
                            /\ tasksFile'.doc["teams"][name]
                                 = [j \in 1..Len(worklog.teams[name]) |->
                                        Task_to_dict(worklog.teams[name][j])]
    /\ worklog'.session_notes = worklog.session_notes
    /\ worklog'.session_start = worklog.session_start
    /\ tasksFile' # tasksFile /\ tasksFile'.kind = "object"
          => /\ tasksFile'.doc["session_notes"] = worklog.session_notes
             /\ tasksFile'.doc["session_start"] = worklog.session_start

\* at the start a category of the Config that the work log lacks shows no
\* task
MissingShowsEmpty ==
    \A i \in 1..Len(tabs') :
        tabs'[i].tab_name \notin DOMAIN worklog'.teams => tabs'[i].tasks = << >>

C28_CursorOnMember ==
    \A i \in 1..Len(tabs) : tabs[i].current_task \in 0..Len(tabs[i].tasks)

\* the task the file gave to "Team A" was deleted, and the cursor is on the
\* task added behind it, now the only one
C28_Witness ==
    /\ phase = "running"
    /\ curTab # 0
    /\ tabs[curTab].tab_name = "Team A"
    /\ tasksFile.kind = "object"
    /\ Len(tabs[curTab].tasks) = 1
    /\ tabs[curTab].tasks[1].created_at = <<now>>
    /\ tabs[curTab].current_task = 1


(***************************************************************************)
(* Claims on the layout with several categories, checked under SpecLayout. *)
(***************************************************************************)
\* the height the notes of the category shown want: baseline_height with
\* the notes visible, baseline_height - 85 with the notes hidden (or the
\* minimum height, where that is more)
WantedHeight(tab, baseline) ==
    Max(IF tab.notes_visible THEN baseline ELSE baseline - NOTES_ALLOWANCE, WINDOW_MIN_HEIGHT)

\* C29, for the step that shows another category: outside presentation
\* mode, a window that was as high as the notes of the category shown
\* wanted it is, after the step, as high as the notes of the category shown
\* now want it.
C29_HeightFollowsShownCategory ==
    [][(phase = "running" /\ ~presentation_mode /\ curTab # 0 /\ curTab' # curTab
            /\ geom.h = WantedHeight(tabs[curTab], baseline_height)
            /\ \E i \in 1..Len(tabs) : SwitchTab(i))
          => geom'.h = WantedHeight(tabs'[curTab'], baseline_height')]_vars


\* C30: every size a handler asks the window to take, at the start, when
\* the notes are hidden or shown and when presentation mode is entered or
\* left, is at least WINDOW_MIN_WIDTH wide and WINDOW_MIN_HEIGHT high.
C30_RequestsRespectMinimum ==
    \A k \in 1..Len(requests) :
        requests[k].w >= WINDOW_MIN_WIDTH /\ requests[k].h >= WINDOW_MIN_HEIGHT

\* C31: when the settings dialog is dismissed without accepting, the Config
\* in memory is the Config of the moment the dialog was opened: no category
\* added, renamed or removed in the dialog stays, and notes_collapsed is as
\* it was.
C31_DismissRestoresConfig ==
    [][RejectSettings => config' = opened_config]_vars

================================================================================
